---- MODULE Spec2Model ----
(***************************************************************************)
(* Snowflake-style 64-bit id generation (src/src/lib.rs, src/src/utils.rs). *)
(*                                                                         *)
(* An id packs a millisecond timestamp, a machine tag, a server tag and a  *)
(* per-millisecond index.  IdGenerator offers three strategies             *)
(* (generate_id, generate_id_by_time, generate_id_lazy); IdGeneratorBucket *)
(* buffers one batch of lazily generated ids and pops them.                *)
(*                                                                         *)
(* The wall clock is the environment: `wall` is the current time in        *)
(* milliseconds relative to the epoch (negative: before the epoch).  The   *)
(* busy-wait of bind_time is modelled as a position of the call (`call`),  *)
(* one step per clock read, since the clock moves while it spins.          *)
(*                                                                         *)
(* The index modulus MAX_IDS_PER_MILLISECOND is 4096 in the source.  The   *)
(* model keeps the 22/17/12 bit layout of shift_bits exactly and scales    *)
(* the modulus down so that wraparound is reached within the explored      *)
(* call counts; the modulus never exceeds the 12-bit index field.          *)
(***************************************************************************)
EXTENDS Integers, Sequences, FiniteSets

VARIABLES
    wall,       \* wall clock, ms relative to the epoch (environment)
    gen,        \* live IdGenerator instances: instance -> fields
    call,       \* per instance: position of the call in progress
    returned,   \* per instance: ids returned so far, in call order
    used,       \* per instance: the strategies called so far
    bkt,        \* live IdGeneratorBucket instances: bucket -> fields
    got,        \* per bucket: ids returned by get_id, in call order
    refills,    \* per bucket: batches pushed by generate_ids, in order
    direct,     \* per bucket: number of generate_ids calls made by the user
    panicked    \* per bucket: TRUE once get_id unwrapped an empty pop

vars == <<wall, gen, call, returned, used, bkt, got, refills, direct, panicked>>

genVars == <<gen, call, returned, used>>
bktVars == <<bkt, got, refills, direct, panicked>>

----------------------------------------------------------------------------
(* Bounds of the model                                                     *)

\* index modulus (4096 in the source, scaled)
MAX_IDS_PER_MILLISECOND == 4
\* latest wall-clock millisecond after the epoch
MaxWall == 2
\* calls explored per generator instance
MaxCalls == 12
\* calls explored per generator instance when the clock may step backward
MaxCallsAnyClock == 5
\* calls explored per generator instance when progress is checked
MaxCallsLive == 5
\* calls explored per generator instance when single steps are checked
MaxCallsStep == 5
\* latest wall-clock millisecond when two instances run side by side
MaxWallTwo == 1
\* calls explored in all when two instances run side by side
MaxCallsTwo == 4
\* get_id / generate_ids calls explored beside a generator
MaxBucketCallsBoth == 2
\* get_id / generate_ids calls explored per bucket
MaxBucketCalls == 9

\* tags offered to the constructors (valid tags are 0..31)
Tags == {0, 1, 31}
\* tags offered when two instances are constructed
TagsTwo == {0, 31}
\* tags offered when the constructors are given tags outside 0..31 too
WideTags == {0, 1, 32, 1024}

\* a wall clock set before the epoch: get_timestamp maps every such reading
\* to 0, so one reading stands for all of them
BeforeEpoch == 0 - 1

WallRange == {BeforeEpoch} \cup 0..MaxWall
WallRangeTwo == 0..MaxWallTwo

----------------------------------------------------------------------------
(* Bit arithmetic on non-negative integers                                 *)

RECURSIVE Pow2(_)
Pow2(n) == IF n = 0 THEN 1 ELSE 2 * Pow2(n - 1)

\* x << n  (no bit reaches the sign bit within the explored timestamps)
Shl(x, n) == x * Pow2(n)

\* x >> n
Shr(x, n) == x \div Pow2(n)

RECURSIVE BitOr(_, _)
BitOr(a, b) ==
    IF a = 0 THEN b
    ELSE IF b = 0 THEN a
    ELSE (IF (a % 2 = 1) \/ (b % 2 = 1) THEN 1 ELSE 0)
         + 2 * BitOr(a \div 2, b \div 2)

\* x & (2^n - 1)
RECURSIVE LowBits(_, _)
LowBits(x, n) ==
    IF n = 0 \/ x = 0 THEN 0
    ELSE (x % 2) + 2 * LowBits(x \div 2, n - 1)

----------------------------------------------------------------------------
(* utils.rs                                                                *)

\* variant: the failed duration_since is not replaced by the zero duration
get_timestamp_unclamped(w) == w

\* get_timestamp: elapsed ms since the epoch, 0 when the clock is before it
get_timestamp(w) == IF w < 0 THEN 0 ELSE w

----------------------------------------------------------------------------
(* IdGenerator                                                             *)

\* variant: the two tags are shifted into each other's field
shift_bits_swapped(timestamp, machine_id, server_id, index) ==
    BitOr(BitOr(BitOr(Shl(timestamp, 22), Shl(machine_id, 12)),
                Shl(server_id, 17)),
          index)

\* variant: the machine tag is left out of the id
shift_bits_no_machine(timestamp, machine_id, server_id, index) ==
    BitOr(BitOr(Shl(timestamp, 22), Shl(server_id, 12)), index)

\* variant: the server tag is cut to its five bits before the shift
shift_bits_masked_server(timestamp, machine_id, server_id, index) ==
    BitOr(BitOr(BitOr(Shl(timestamp, 22), Shl(machine_id, 17)),
                Shl(server_id % 32, 12)),
          index)

shift_bits(timestamp, machine_id, server_id, index) ==
    BitOr(BitOr(BitOr(Shl(timestamp, 22), Shl(machine_id, 17)),
                Shl(server_id, 12)),
          index)

\* variant: the modulus is one too large
generalize_index_off_by_one(index) == (index + 1) % (MAX_IDS_PER_MILLISECOND + 1)

generalize_index(index) == (index + 1) % MAX_IDS_PER_MILLISECOND

\* IdGenerator::with_epochs
NewGenerator(machine_id, server_id, w) ==
    [timestamp  |-> get_timestamp(w),
     machine_id |-> machine_id,
     server_id  |-> server_id,
     index      |-> 0]

\* the trailing shift_bits call of every strategy
PackOf(s) == shift_bits(s.timestamp, s.machine_id, s.server_id, s.index)

Idle == [pc |-> "idle", timestamp |-> 0]

\* a call on instance g returns with state s
Return(g, s, strategy) ==
    /\ gen' = [gen EXCEPT ![g] = s]
    /\ returned' = [returned EXCEPT ![g] = Append(@, PackOf(s))]
    /\ used' = [used EXCEPT ![g] = @ \cup {strategy}]
    /\ call' = [call EXCEPT ![g] = Idle]

\* a call on instance g enters bind_time(timestamp, epoch) with state s
EnterBind(g, s, strategy, timestamp) ==
    /\ gen' = [gen EXCEPT ![g] = s]
    /\ used' = [used EXCEPT ![g] = @ \cup {strategy}]
    /\ call' = [call EXCEPT ![g] = [pc |-> strategy, timestamp |-> timestamp]]
    /\ UNCHANGED returned

\* number of ids returned so far by the instances in G
RECURSIVE Calls(_)
Calls(G) ==
    IF G = {} THEN 0
    ELSE LET g == CHOOSE x \in G : TRUE
         IN  Len(returned[g]) + Calls(G \ {g})

\* instance g is not inside a call, and the explored call count is not used up
CanCall(g, max) ==
    /\ call[g].pc = "idle"
    /\ Calls(DOMAIN gen) < max

\* generate_id, up to its return or its entry into bind_time
generate_id(g, max) ==
    /\ CanCall(g, max)
    /\ LET s1  == [gen[g] EXCEPT !.index = generalize_index(gen[g].index)]
           now == get_timestamp(wall)
       IN  IF s1.index = 0
           THEN IF now = s1.timestamp
                THEN EnterBind(g, s1, "generate_id", s1.timestamp)
                ELSE Return(g, [s1 EXCEPT !.timestamp = now], "generate_id")
           ELSE Return(g, s1, "generate_id")
    /\ UNCHANGED <<wall, bktVars>>

\* variant: an unchanged clock waits whether or not the index wrapped
generate_id_by_time_always_wait(g, max) ==
    /\ CanCall(g, max)
    /\ LET s1  == [gen[g] EXCEPT !.index = generalize_index(gen[g].index)]
           now == get_timestamp(wall)
       IN  IF now = s1.timestamp
           THEN EnterBind(g, s1, "generate_id_by_time", now)
           ELSE Return(g, [s1 EXCEPT !.timestamp = now, !.index = 0],
                       "generate_id_by_time")
    /\ UNCHANGED <<wall, bktVars>>

\* variant: an unchanged clock never waits, also after a wrap
generate_id_by_time_no_wait(g, max) ==
    /\ CanCall(g, max)
    /\ LET s1  == [gen[g] EXCEPT !.index = generalize_index(gen[g].index)]
           now == get_timestamp(wall)
       IN  IF now = s1.timestamp
           THEN Return(g, s1, "generate_id_by_time")
           ELSE Return(g, [s1 EXCEPT !.timestamp = now, !.index = 0],
                       "generate_id_by_time")
    /\ UNCHANGED <<wall, bktVars>>

\* variant: a differing read is adopted without resetting the index
generate_id_by_time_keep_index(g, max) ==
    /\ CanCall(g, max)
    /\ LET s1  == [gen[g] EXCEPT !.index = generalize_index(gen[g].index)]
           now == get_timestamp(wall)
       IN  IF now = s1.timestamp
           THEN IF s1.index = 0
                THEN EnterBind(g, s1, "generate_id_by_time", now)
                ELSE Return(g, s1, "generate_id_by_time")
           ELSE Return(g, [s1 EXCEPT !.timestamp = now], "generate_id_by_time")
    /\ UNCHANGED <<wall, bktVars>>

\* variant: a read below the recorded timestamp is ignored
generate_id_by_time_ignore_lower(g, max) ==
    /\ CanCall(g, max)
    /\ LET s1  == [gen[g] EXCEPT !.index = generalize_index(gen[g].index)]
           now == get_timestamp(wall)
       IN  IF now = s1.timestamp
           THEN IF s1.index = 0
                THEN EnterBind(g, s1, "generate_id_by_time", now)
                ELSE Return(g, s1, "generate_id_by_time")
           ELSE IF now < s1.timestamp
                THEN Return(g, s1, "generate_id_by_time")
                ELSE Return(g, [s1 EXCEPT !.timestamp = now, !.index = 0],
                            "generate_id_by_time")
    /\ UNCHANGED <<wall, bktVars>>

\* generate_id_by_time, up to its return or its entry into bind_time
generate_id_by_time(g, max) ==
    /\ CanCall(g, max)
    /\ LET s1  == [gen[g] EXCEPT !.index = generalize_index(gen[g].index)]
           now == get_timestamp(wall)
       IN  IF now = s1.timestamp
           THEN IF s1.index = 0
                THEN EnterBind(g, s1, "generate_id_by_time", now)
                ELSE Return(g, s1, "generate_id_by_time")
           ELSE Return(g, [s1 EXCEPT !.timestamp = now, !.index = 0],
                       "generate_id_by_time")
    /\ UNCHANGED <<wall, bktVars>>

\* variant: the loop exits on a read equal to the timestamp it was given
bind_time_or_equal(g) ==
    /\ call[g].pc # "idle"
    /\ LET very_last_time == get_timestamp(wall)
       IN  /\ very_last_time >= call[g].timestamp
           /\ Return(g, [gen[g] EXCEPT !.timestamp = very_last_time], call[g].pc)
    /\ UNCHANGED <<wall, bktVars>>

\* variant: the comparison of the loop is reversed
bind_time_reversed(g) ==
    /\ call[g].pc # "idle"
    /\ LET very_last_time == get_timestamp(wall)
       IN  /\ very_last_time < call[g].timestamp
           /\ Return(g, [gen[g] EXCEPT !.timestamp = very_last_time], call[g].pc)
    /\ UNCHANGED <<wall, bktVars>>

\* one iteration of the loop of bind_time, and the rest of the call that
\* entered it when the loop exits
bind_time(g) ==
    /\ call[g].pc # "idle"
    /\ LET very_last_time == get_timestamp(wall)
       IN  /\ very_last_time > call[g].timestamp
           /\ Return(g, [gen[g] EXCEPT !.timestamp = very_last_time], call[g].pc)
    /\ UNCHANGED <<wall, bktVars>>

\* variant: a wrap leaves the timestamp alone
LazyStep_no_advance(s) == [s EXCEPT !.index = generalize_index(s.index)]

\* variant: the wrap is tested on the index before the advance
LazyStep_test_before_advance(s) ==
    LET s1 == [s EXCEPT !.index = generalize_index(s.index)]
    IN  IF s.index = 0 THEN [s1 EXCEPT !.timestamp = s1.timestamp + 1] ELSE s1

\* the state change of generate_id_lazy
LazyStep(s) ==
    LET s1 == [s EXCEPT !.index = generalize_index(s.index)]
    IN  IF s1.index = 0 THEN [s1 EXCEPT !.timestamp = s1.timestamp + 1] ELSE s1

generate_id_lazy(g, max) ==
    /\ CanCall(g, max)
    /\ Return(g, LazyStep(gen[g]), "generate_id_lazy")
    /\ UNCHANGED <<wall, bktVars>>

----------------------------------------------------------------------------
(* The clock                                                               *)

\* the clock moves on to a later reading of W
ClockForward(W) ==
    /\ \E w \in W : w > wall /\ wall' = w
    /\ UNCHANGED <<genVars, bktVars>>

\* the clock is set back to an earlier reading of W
ClockBackward(W) ==
    /\ \E w \in W : w < wall /\ wall' = w
    /\ UNCHANGED <<genVars, bktVars>>

----------------------------------------------------------------------------
(* Specifications of the generator                                         *)

NoBuckets ==
    /\ bkt = << >>
    /\ got = << >>
    /\ refills = << >>
    /\ direct = << >>
    /\ panicked = << >>

InitGens(G, T, W) ==
    /\ wall \in W
    /\ \E m \in [G -> T], s \in [G -> T] :
          gen = [g \in G |-> NewGenerator(m[g], s[g], wall)]
    /\ call = [g \in G |-> Idle]
    /\ returned = [g \in G |-> << >>]
    /\ used = [g \in G |-> {}]
    /\ NoBuckets

\* one instance, a clock that never goes backward
Init == InitGens({1}, Tags, WallRange)

Next ==
    \/ generate_id(1, MaxCalls)
    \/ generate_id_by_time(1, MaxCalls)
    \/ generate_id_lazy(1, MaxCalls)
    \/ bind_time(1)
    \/ ClockForward(WallRange)

Spec == Init /\ [][Next]_vars

\* one instance, a clock that may step backward
NextAnyClock ==
    \/ generate_id(1, MaxCallsAnyClock)
    \/ generate_id_by_time(1, MaxCallsAnyClock)
    \/ generate_id_lazy(1, MaxCallsAnyClock)
    \/ bind_time(1)
    \/ ClockForward(WallRange)
    \/ ClockBackward(WallRange)

SpecAnyClock == Init /\ [][NextAnyClock]_vars

\* the readings a clock that keeps advancing can take next: those of
\* WallRange and, while a call waits in bind_time, the millisecond after the
\* timestamp it waits on
LiveWalls ==
    WallRange \cup {call[g].timestamp + 1 :
                       g \in {h \in DOMAIN gen : call[h].pc # "idle"}}

\* one instance, a clock that keeps advancing, a busy-wait that keeps polling
NextLive ==
    \/ generate_id(1, MaxCallsLive)
    \/ generate_id_by_time(1, MaxCallsLive)
    \/ generate_id_lazy(1, MaxCallsLive)
    \/ bind_time(1)
    \/ ClockForward(LiveWalls)

SpecLive ==
    /\ Init
    /\ [][NextLive]_vars
    /\ WF_vars(bind_time(1))
    /\ WF_vars(ClockForward(LiveWalls))

\* two instances, each on its own clock reads; the clock may step backward
InitTwo == InitGens({1, 2}, TagsTwo, WallRangeTwo)

NextTwo ==
    \/ \E g \in DOMAIN gen : generate_id(g, MaxCallsTwo)
    \/ \E g \in DOMAIN gen : generate_id_by_time(g, MaxCallsTwo)
    \/ \E g \in DOMAIN gen : generate_id_lazy(g, MaxCallsTwo)
    \/ \E g \in DOMAIN gen : bind_time(g)
    \/ ClockForward(WallRangeTwo)
    \/ ClockBackward(WallRangeTwo)

SpecTwo == InitTwo /\ [][NextTwo]_vars

----------------------------------------------------------------------------
(* IdGeneratorBucket                                                       *)

\* IdGeneratorBucket::with_epochs
NewBucket(machine_id, server_id, w) ==
    [id_gen |-> NewGenerator(machine_id, server_id, w), bucket |-> << >>]

\* n iterations of the loop of generate_ids: push(id_gen.generate_id_lazy())
RECURSIVE Fill(_, _)
Fill(B, n) ==
    IF n = 0 THEN B
    ELSE LET s == LazyStep(B.id_gen)
         IN  Fill([id_gen |-> s, bucket |-> Append(B.bucket, PackOf(s))], n - 1)

\* variant: the loop stops one iteration early
GenerateIds_short(B) == Fill(B, MAX_IDS_PER_MILLISECOND - 1)

\* the state change of IdGeneratorBucket::generate_ids
GenerateIds(B) == Fill(B, MAX_IDS_PER_MILLISECOND)

\* variant: the last entry is read and left in the buffer
Pop_peek(bucket) ==
    [value |-> bucket[Len(bucket)], rest |-> bucket]

\* variant: the buffer is drained from the front
Pop_front(bucket) ==
    [value |-> bucket[1], rest |-> Tail(bucket)]

\* Vec::pop on a non-empty buffer
Pop(bucket) ==
    [value |-> bucket[Len(bucket)],
     rest  |-> SubSeq(bucket, 1, Len(bucket) - 1)]

\* the entries a run of generate_ids added to the buffer
Pushed(before, after) ==
    SubSeq(after.bucket, Len(before.bucket) + 1, Len(after.bucket))

CanCallBucket(b) ==
    /\ ~panicked[b]
    /\ Len(got[b]) + direct[b] < MaxBucketCalls

get_id(b) ==
    /\ CanCallBucket(b)
    /\ LET B0 == bkt[b]
           B1 == IF B0.bucket = << >> THEN GenerateIds(B0) ELSE B0
       IN  /\ refills' = IF B0.bucket = << >>
                         THEN [refills EXCEPT ![b] = Append(@, Pushed(B0, B1))]
                         ELSE refills
           /\ IF B1.bucket = << >>
              THEN \* pop() is None: unwrap panics
                   /\ panicked' = [panicked EXCEPT ![b] = TRUE]
                   /\ bkt' = [bkt EXCEPT ![b] = B1]
                   /\ UNCHANGED got
              ELSE /\ bkt' = [bkt EXCEPT ![b].id_gen = B1.id_gen,
                                         ![b].bucket = Pop(B1.bucket).rest]
                   /\ got' = [got EXCEPT ![b] = Append(@, Pop(B1.bucket).value)]
                   /\ UNCHANGED panicked
    /\ UNCHANGED <<wall, genVars, direct>>

\* generate_ids called by the user of the bucket (it is public)
generate_ids(b) ==
    /\ CanCallBucket(b)
    /\ LET B0 == bkt[b]
           B1 == GenerateIds(B0)
       IN  /\ bkt' = [bkt EXCEPT ![b] = B1]
           /\ refills' = [refills EXCEPT ![b] = Append(@, Pushed(B0, B1))]
    /\ direct' = [direct EXCEPT ![b] = @ + 1]
    /\ UNCHANGED <<wall, genVars, got, panicked>>

InitBucket ==
    /\ wall \in WallRange
    /\ \E m \in Tags, s \in Tags : bkt = [b \in {1} |-> NewBucket(m, s, wall)]
    /\ got = [b \in {1} |-> << >>]
    /\ refills = [b \in {1} |-> << >>]
    /\ direct = [b \in {1} |-> 0]
    /\ panicked = [b \in {1} |-> FALSE]
    /\ gen = << >>
    /\ call = << >>
    /\ returned = << >>
    /\ used = << >>

NextBucket ==
    \/ get_id(1)
    \/ generate_ids(1)
    \/ ClockForward(WallRange)
    \/ ClockBackward(WallRange)

SpecBucket == InitBucket /\ [][NextBucket]_vars

\* one generator and one bucket on the same clock, which never goes backward
InitBoth ==
    /\ wall \in WallRangeTwo
    /\ \E m \in TagsTwo, s \in TagsTwo :
          /\ gen = [g \in {1} |-> NewGenerator(m, s, wall)]
          /\ bkt = [b \in {1} |-> NewBucket(m, s, wall)]
    /\ call = [g \in {1} |-> Idle]
    /\ returned = [g \in {1} |-> << >>]
    /\ used = [g \in {1} |-> {}]
    /\ got = [b \in {1} |-> << >>]
    /\ refills = [b \in {1} |-> << >>]
    /\ direct = [b \in {1} |-> 0]
    /\ panicked = [b \in {1} |-> FALSE]

NextBoth ==
    \/ generate_id(1, MaxCallsTwo)
    \/ generate_id_by_time(1, MaxCallsTwo)
    \/ generate_id_lazy(1, MaxCallsTwo)
    \/ bind_time(1)
    \/ (Len(got[1]) + direct[1] < MaxBucketCallsBoth /\ get_id(1))
    \/ (Len(got[1]) + direct[1] < MaxBucketCallsBoth /\ generate_ids(1))
    \/ ClockForward(WallRangeTwo)

SpecBoth == InitBoth /\ [][NextBoth]_vars

\* one generator on a small clock that also goes backward, for the
\* properties of single calls
InitStep == InitGens({1}, TagsTwo, WallRangeTwo)

NextStep ==
    \/ generate_id(1, MaxCallsStep)
    \/ generate_id_by_time(1, MaxCallsStep)
    \/ generate_id_lazy(1, MaxCallsStep)
    \/ bind_time(1)
    \/ ClockForward(WallRangeTwo)
    \/ ClockBackward(WallRangeTwo)

SpecStep == InitStep /\ [][NextStep]_vars

\* two instances constructed with tags inside and outside 0..31, which the
\* constructors accept as they are
InitWide == InitGens({1, 2}, WideTags, WallRangeTwo)

NextWide ==
    \/ \E g \in DOMAIN gen : generate_id_lazy(g, MaxCallsTwo)
    \/ ClockForward(WallRangeTwo)

SpecWide == InitWide /\ [][NextWide]_vars

----------------------------------------------------------------------------
(* Vocabulary of the properties                                            *)

Distinct(seq) == \A i, j \in 1..Len(seq) : i # j => seq[i] # seq[j]

Increasing(seq) == \A i \in 1..(Len(seq) - 1) : seq[i] < seq[i + 1]

\* the decoders of the bit layout
TimestampOf(id) == LowBits(Shr(id, 22), 42)
MachineOf(id)   == LowBits(Shr(id, 17), 5)
ServerOf(id)    == LowBits(Shr(id, 12), 5)
SequenceOf(id)  == LowBits(id, 12)

Only(g, strategy) == used[g] \subseteq {strategy}

----------------------------------------------------------------------------
(* Properties                                                              *)

\* C1: with a clock that never goes backward, the ids returned by one
\* instance are pairwise distinct however the three strategies are mixed.
\* (Checked under Spec, whose clock only moves forward.)
MixedDistinct == \A g \in DOMAIN gen : Distinct(returned[g])

\* C2: on an instance on which only one strategy is ever called, the ids
\* returned are pairwise distinct, for every behaviour of the clock.
\* (Checked under SpecAnyClock, whose clock may step backward.)
SingleStrategyDistinct ==
    \A g \in DOMAIN gen : Cardinality(used[g]) <= 1 => Distinct(returned[g])

\* C3: on an instance on which only generate_id is called, with a clock
\* that never goes backward, every id is greater than the one before it,
\* also across a wrap of the index.
GuardedIncreasing ==
    \A g \in DOMAIN gen : Only(g, "generate_id") => Increasing(returned[g])

\* more ids than one millisecond holds: the index wrapped and the id of the
\* wrap carries a later timestamp
GuardedIncreasingWitness ==
    \E g \in DOMAIN gen :
        /\ used[g] = {"generate_id"}
        /\ call[g].pc = "idle"
        /\ Len(returned[g]) > MAX_IDS_PER_MILLISECOND
        /\ SequenceOf(returned[g][MAX_IDS_PER_MILLISECOND]) = 0
        /\ TimestampOf(returned[g][MAX_IDS_PER_MILLISECOND])
              > TimestampOf(returned[g][1])

\* C4: on an instance on which only generate_id_by_time is called, with a
\* clock that never goes backward, every id is greater than the one before.
ByTimeIncreasing ==
    \A g \in DOMAIN gen :
        Only(g, "generate_id_by_time") => Increasing(returned[g])

\* a full millisecond of ids on an unchanged clock, then the wait, then more
ByTimeIncreasingWitness ==
    \E g \in DOMAIN gen :
        /\ used[g] = {"generate_id_by_time"}
        /\ call[g].pc = "idle"
        /\ Len(returned[g]) > MAX_IDS_PER_MILLISECOND
        /\ SequenceOf(returned[g][MAX_IDS_PER_MILLISECOND - 1])
              = MAX_IDS_PER_MILLISECOND - 1

\* C5: on an instance on which only generate_id_lazy is called, every id is
\* greater than the one before it, whatever the clock does.
\* (Checked under SpecAnyClock.)
LazyIncreasing ==
    \A g \in DOMAIN gen :
        Only(g, "generate_id_lazy") => Increasing(returned[g])

LazyIncreasingWitness ==
    \E g \in DOMAIN gen :
        /\ used[g] = {"generate_id_lazy"}
        /\ Len(returned[g]) > MAX_IDS_PER_MILLISECOND
        /\ wall < gen[g].timestamp

\* C6 as stated: on a fresh generator the first MAX_IDS_PER_MILLISECOND lazy
\* ids are pairwise distinct and the next lazy id carries a timestamp
\* greater than that of every one of them.
FreshLazyWrapAsStated ==
    \A g \in DOMAIN gen :
        (Only(g, "generate_id_lazy")
            /\ Len(returned[g]) > MAX_IDS_PER_MILLISECOND)
        => /\ Distinct(SubSeq(returned[g], 1, MAX_IDS_PER_MILLISECOND))
           /\ \A i \in 1..MAX_IDS_PER_MILLISECOND :
                 TimestampOf(returned[g][MAX_IDS_PER_MILLISECOND + 1])
                    > TimestampOf(returned[g][i])

\* C6 amended: on a fresh generator the first MAX_IDS_PER_MILLISECOND lazy
\* ids are pairwise distinct; the next lazy id carries a timestamp greater
\* than that of each of the first MAX_IDS_PER_MILLISECOND - 1 ids and equal
\* to that of the last of them, which is the id of the wrap.
FreshLazyWrap ==
    \A g \in DOMAIN gen :
        (Only(g, "generate_id_lazy")
            /\ Len(returned[g]) > MAX_IDS_PER_MILLISECOND)
        => /\ Distinct(SubSeq(returned[g], 1, MAX_IDS_PER_MILLISECOND))
           /\ \A i \in 1..(MAX_IDS_PER_MILLISECOND - 1) :
                 TimestampOf(returned[g][MAX_IDS_PER_MILLISECOND + 1])
                    > TimestampOf(returned[g][i])
           /\ TimestampOf(returned[g][MAX_IDS_PER_MILLISECOND + 1])
                 = TimestampOf(returned[g][MAX_IDS_PER_MILLISECOND])
           /\ SequenceOf(returned[g][MAX_IDS_PER_MILLISECOND]) = 0

FreshLazyWrapWitness ==
    \E g \in DOMAIN gen :
        /\ used[g] = {"generate_id_lazy"}
        /\ Len(returned[g]) = MAX_IDS_PER_MILLISECOND + 1

\* C7: an id decodes to the state the generator holds when the call
\* returns: timestamp, machine tag, server tag and index, the index being
\* in 0..4095.  (Tags are in 0..31 and timestamps below 2^42 throughout.)
RoundTrip ==
    \A g \in DOMAIN gen :
        (call[g].pc = "idle" /\ returned[g] # << >>)
        => LET id == returned[g][Len(returned[g])]
           IN  /\ TimestampOf(id) = gen[g].timestamp
               /\ MachineOf(id) = gen[g].machine_id
               /\ ServerOf(id) = gen[g].server_id
               /\ SequenceOf(id) = gen[g].index
               /\ gen[g].index \in 0..4095

RoundTripWitness ==
    \E g \in DOMAIN gen :
        /\ call[g].pc = "idle"
        /\ used[g] = {"generate_id", "generate_id_by_time", "generate_id_lazy"}
        /\ gen[g].machine_id = 1
        /\ gen[g].server_id = 31
        /\ gen[g].timestamp > 1
        /\ gen[g].index > 1

\* C8: two instances constructed with different (machine_id, server_id)
\* pairs, all tags in 0..31, never return the same id, whatever strategies
\* are called on each, however interleaved, whatever the clock does.
\* (Checked under SpecTwo.)
DifferentTags(g, h) ==
    <<gen[g].machine_id, gen[g].server_id>>
        # <<gen[h].machine_id, gen[h].server_id>>

CrossInstanceDistinct ==
    \A g, h \in DOMAIN gen :
        (g # h /\ DifferentTags(g, h)
            /\ {gen[g].machine_id, gen[g].server_id,
                gen[h].machine_id, gen[h].server_id} \subseteq 0..31)
        => \A i \in 1..Len(returned[g]), j \in 1..Len(returned[h]) :
              returned[g][i] # returned[h][j]

\* both instances returned an id of the same timestamp and the same index
CrossInstanceDistinctWitness ==
    \E g, h \in DOMAIN gen :
        /\ g # h
        /\ DifferentTags(g, h)
        /\ gen[g].machine_id # gen[h].machine_id
        /\ \E i \in 1..Len(returned[g]), j \in 1..Len(returned[h]) :
              /\ TimestampOf(returned[g][i]) = TimestampOf(returned[h][j])
              /\ SequenceOf(returned[g][i]) = SequenceOf(returned[h][j])
        /\ used[g] # used[h]

\* C9: on a bucket driven only through get_id, no get_id pops an empty
\* buffer, every refill pushes exactly MAX_IDS_PER_MILLISECOND pairwise
\* distinct ids, and after MAX_IDS_PER_MILLISECOND * k calls (k >= 1)
\* exactly k refills have run and the buffer is empty again.
\* (Checked under SpecBucket.)
BucketDrainRefill ==
    \A b \in DOMAIN bkt :
        direct[b] = 0
        => /\ ~panicked[b]
           /\ \A r \in 1..Len(refills[b]) :
                 /\ Len(refills[b][r]) = MAX_IDS_PER_MILLISECOND
                 /\ Distinct(refills[b][r])
           /\ (Len(got[b]) > 0 /\ Len(got[b]) % MAX_IDS_PER_MILLISECOND = 0)
              => /\ Len(refills[b]) = Len(got[b]) \div MAX_IDS_PER_MILLISECOND
                 /\ bkt[b].bucket = << >>

\* two full batches drained
BucketDrainRefillWitness ==
    \E b \in DOMAIN bkt :
        /\ direct[b] = 0
        /\ Len(got[b]) = 2 * MAX_IDS_PER_MILLISECOND
        /\ Len(refills[b]) = 2

\* C10: all ids returned by get_id on one bucket are pairwise distinct,
\* across refills as well as within one batch.
BucketDistinct == \A b \in DOMAIN bkt : Distinct(got[b])

\* ids of two batches were returned
BucketDistinctWitness ==
    \E b \in DOMAIN bkt :
        /\ Len(refills[b]) >= 2
        /\ Len(got[b]) > MAX_IDS_PER_MILLISECOND
        /\ \E i, j \in 1..Len(got[b]) :
              TimestampOf(got[b][i]) # TimestampOf(got[b][j])

\* C11: through any sequence of get_id and generate_ids calls the buffer
\* holds at most MAX_IDS_PER_MILLISECOND ids, and generate_ids only ever
\* runs on an empty buffer.  (Checked under SpecBucket.)
RefillOnlyWhenEmpty ==
    \A b \in DOMAIN bkt :
        Len(refills'[b]) > Len(refills[b]) => bkt[b].bucket = << >>

BufferBounded ==
    \A b \in DOMAIN bkt : Len(bkt[b].bucket) <= MAX_IDS_PER_MILLISECOND

BucketBounded == [](BufferBounded) /\ [][RefillOnlyWhenEmpty]_vars

\* C12: with a clock that keeps advancing, every generate_id and
\* generate_id_by_time call returns; the wait in bind_time ends on a clock
\* read greater than the timestamp it was given, and the call returns with
\* that read as its timestamp.  (Checked under SpecLive.)
BindExit ==
    \A g \in DOMAIN gen :
        (call[g].pc # "idle" /\ call'[g].pc = "idle")
        => /\ get_timestamp(wall) > call[g].timestamp
           /\ gen'[g].timestamp = get_timestamp(wall)
           /\ TimestampOf(returned'[g][Len(returned'[g])]) = get_timestamp(wall)

CallsReturn ==
    /\ (call[1].pc # "idle") ~> (call[1].pc = "idle")
    /\ [][BindExit]_vars

\* a call that wrapped on an unchanged clock waited in bind_time and
\* returned with a reading past the last one of WallRange
CallsReturnWitness ==
    /\ call[1].pc = "idle"
    /\ used[1] = {"generate_id", "generate_id_by_time"}
    /\ gen[1].index = 0
    /\ gen[1].timestamp > MaxWall
    /\ Len(returned[1]) >= MAX_IDS_PER_MILLISECOND

\* C13: a call enters the wait of bind_time only in generate_id or
\* generate_id_by_time, and only when its advance of the index wrapped to 0
\* and the clock read of the call equals the recorded timestamp;
\* generate_id_lazy, get_id and generate_ids complete without waiting.
\* (Checked under SpecBoth.)
EntersWaitOnlyOnWrap ==
    \A g \in DOMAIN gen :
        (call[g].pc = "idle" /\ call'[g].pc # "idle")
        => /\ call'[g].pc \in {"generate_id", "generate_id_by_time"}
           /\ (gen[g].index + 1) % MAX_IDS_PER_MILLISECOND = 0
           /\ gen'[g].index = 0
           /\ get_timestamp(wall) = gen[g].timestamp
           /\ call'[g].timestamp = gen[g].timestamp

LazyNeverWaits ==
    \A g \in DOMAIN gen :
        generate_id_lazy(g, MaxCallsTwo)
        => /\ call'[g].pc = "idle"
           /\ Len(returned'[g]) = Len(returned[g]) + 1

BucketNeverWaits ==
    \A b \in DOMAIN bkt :
        (get_id(b) \/ generate_ids(b))
        => /\ call' = call
           /\ ~panicked'[b]
           /\ \/ Len(got'[b]) = Len(got[b]) + 1
              \/ Len(refills'[b]) = Len(refills[b]) + 1

WaitOnlyOnWrap ==
    [][EntersWaitOnlyOnWrap /\ LazyNeverWaits /\ BucketNeverWaits]_vars

\* a call waits in bind_time, after lazy calls and bucket calls completed
WaitOnlyOnWrapWitness ==
    /\ call[1].pc # "idle"
    /\ "generate_id_lazy" \in used[1]
    /\ Len(got[1]) > 0
    /\ direct[1] > 0

\* C14: get_timestamp never fails and never returns a negative value: it
\* returns 0 when the wall clock is before the epoch and the elapsed
\* milliseconds otherwise; so no recorded timestamp and no id is negative.
\* (Checked under SpecAnyClock, whose clock reaches BeforeEpoch.)
ClockSourceFailSoft ==
    /\ get_timestamp(wall) >= 0
    /\ wall < 0 => get_timestamp(wall) = 0
    /\ wall >= 0 => get_timestamp(wall) = wall
    /\ \A g \in DOMAIN gen :
          /\ gen[g].timestamp >= 0
          /\ call[g].timestamp >= 0
          /\ \A i \in 1..Len(returned[g]) : returned[g][i] >= 0

\* with the clock set before the epoch, a generate_id_by_time call read 0
\* and went back to millisecond 0 from a later one
ClockSourceFailSoftWitness ==
    \E g \in DOMAIN gen :
        /\ wall < 0
        /\ used[g] = {"generate_id_by_time"}
        /\ Len(returned[g]) >= 2
        /\ TimestampOf(returned[g][Len(returned[g]) - 1]) > 0
        /\ TimestampOf(returned[g][Len(returned[g])]) = 0
        /\ gen[g].timestamp = 0
        /\ gen[g].index = 0

\* C15: on an instance that uses only one strategy, a call whose advance of
\* the index wraps to 0 returns an id whose timestamp is greater than the
\* timestamp recorded before the call, whatever the clock returns.
\* (Checked under SpecAnyClock.  On such an instance the id returned by
\* the previous call carries the timestamp and the index recorded before
\* the call.)
WrapAdvancesTimestamp ==
    \A g \in DOMAIN gen :
        Cardinality(used[g]) <= 1
        => \A i \in 2..Len(returned[g]) :
              SequenceOf(returned[g][i - 1]) = MAX_IDS_PER_MILLISECOND - 1
              => TimestampOf(returned[g][i]) > TimestampOf(returned[g][i - 1])

\* C16: in generate_id_by_time, whenever the clock value read differs from
\* the recorded timestamp, the call records that read, sets the index to 0
\* and returns pack(read, machine_id, server_id, 0); a read smaller than
\* the recorded timestamp is accepted and the returned id is smaller than
\* the previously returned one.
ByTimeAdoptsRead ==
    \A g \in DOMAIN gen :
        generate_id_by_time(g, MaxCallsStep)
        /\ get_timestamp(wall) # gen[g].timestamp
        => LET read == get_timestamp(wall)
               n    == Len(returned[g])
           IN  /\ call'[g].pc = "idle"
               /\ gen'[g].timestamp = read
               /\ gen'[g].index = 0
               /\ Len(returned'[g]) = n + 1
               /\ returned'[g][n + 1] =
                     shift_bits(read, gen[g].machine_id, gen[g].server_id, 0)
               /\ (read < gen[g].timestamp /\ n > 0)
                     => returned'[g][n + 1] < returned[g][n]

ByTimeAdoptsAnyRead == [][ByTimeAdoptsRead]_vars

\* a generate_id_by_time call has accepted a smaller read in the middle of
\* a millisecond and returned a smaller id than the call before it
ByTimeAdoptsAnyReadWitness ==
    \E g \in DOMAIN gen :
        LET n == Len(returned[g])
        IN  /\ used[g] = {"generate_id_by_time"}
            /\ call[g].pc = "idle"
            /\ n >= 2
            /\ SequenceOf(returned[g][n - 1]) > 0
            /\ TimestampOf(returned[g][n]) < TimestampOf(returned[g][n - 1])
            /\ SequenceOf(returned[g][n]) = 0
            /\ returned[g][n] < returned[g][n - 1]
            /\ gen[g].timestamp = TimestampOf(returned[g][n])

\* the n-th id of a generator that has used only generate_id_lazy, as a
\* function of n and of the timestamp T0 of its first id
LazyClosedForm(g) ==
    LET n  == Len(returned[g])
        T0 == TimestampOf(returned[g][1])
    IN  /\ \A k \in 1..n :
              returned[g][k] =
                 shift_bits(T0 + (k \div MAX_IDS_PER_MILLISECOND),
                            gen[g].machine_id, gen[g].server_id,
                            k % MAX_IDS_PER_MILLISECOND)
        /\ gen[g].timestamp = T0 + (n \div MAX_IDS_PER_MILLISECOND)
        /\ gen[g].index = n % MAX_IDS_PER_MILLISECOND

\* how many of the returned ids carry timestamp t
Carried(g, t) ==
    Cardinality({k \in 1..Len(returned[g]) : TimestampOf(returned[g][k]) = t})

\* the timestamps the generator has left behind
Completed(g) == TimestampOf(returned[g][1])..(gen[g].timestamp - 1)

\* C17 as stated: generate_id_lazy never reads the clock; the n-th lazy call
\* on a generator constructed at T0 returns
\* pack(T0 + n div MAX, machine_id, server_id, n mod MAX), so the timestamp
\* grows by exactly 1 on each wrap and every timestamp value carries
\* MAX_IDS_PER_MILLISECOND ids.
LazyClosedFormAsStated ==
    \A g \in DOMAIN gen :
        (Only(g, "generate_id_lazy") /\ returned[g] # << >>)
        => /\ LazyClosedForm(g)
           /\ \A t \in Completed(g) : Carried(g, t) = MAX_IDS_PER_MILLISECOND

\* C17: generate_id_lazy never reads the clock; the n-th lazy call on a
\* generator constructed at T0 returns
\* pack(T0 + n div MAX, machine_id, server_id, n mod MAX) whatever the clock
\* does, so the timestamp grows by exactly 1 on each wrap; the timestamp T0
\* carries MAX_IDS_PER_MILLISECOND - 1 ids (index 0 is never issued with
\* it) and every later timestamp carries MAX_IDS_PER_MILLISECOND ids.
LazyClosedFormCounted ==
    \A g \in DOMAIN gen :
        (Only(g, "generate_id_lazy") /\ returned[g] # << >>)
        => /\ LazyClosedForm(g)
           /\ \A t \in Completed(g) :
                 Carried(g, t) =
                    IF t = TimestampOf(returned[g][1])
                    THEN MAX_IDS_PER_MILLISECOND - 1
                    ELSE MAX_IDS_PER_MILLISECOND

\* a lazy-only generator has left two timestamps behind while the clock
\* moved on from the millisecond of the construction
LazyClosedFormCountedWitness ==
    \E g \in DOMAIN gen :
        /\ used[g] = {"generate_id_lazy"}
        /\ Len(returned[g]) >= 2 * MAX_IDS_PER_MILLISECOND
        /\ Cardinality(Completed(g)) >= 2
        /\ get_timestamp(wall) > TimestampOf(returned[g][1])

\* the batch the i-th pop of a get_id-only consumer belongs to
BatchOf(i) == (i - 1) \div MAX_IDS_PER_MILLISECOND

\* C18: a consumer that calls only get_id sees, within each batch of
\* MAX_IDS_PER_MILLISECOND consecutive pops, strictly descending ids, while
\* every id of a later batch is greater than every id of an earlier batch.
BucketBatchOrder ==
    \A b \in DOMAIN bkt :
        direct[b] = 0
        => \A i, j \in 1..Len(got[b]) :
              /\ (i < j /\ BatchOf(i) = BatchOf(j)) => got[b][i] > got[b][j]
              /\ BatchOf(i) < BatchOf(j) => got[b][i] < got[b][j]

\* a get_id-only consumer has drained one batch and popped twice from the
\* next one
BucketBatchOrderWitness ==
    \E b \in DOMAIN bkt :
        /\ direct[b] = 0
        /\ ~panicked[b]
        /\ Len(refills[b]) = 2
        /\ Len(got[b]) >= MAX_IDS_PER_MILLISECOND + 2

\* two instances whose tags are (0, 32) and (1, 0)
BleedingPair(g, h) ==
    /\ gen[g].machine_id = 0 /\ gen[g].server_id = 32
    /\ gen[h].machine_id = 1 /\ gen[h].server_id = 0

\* ids of the pair with the same timestamp and index are the same id
BleedingPairCollides ==
    \A g, h \in DOMAIN gen :
        BleedingPair(g, h)
        => \A i \in 1..Len(returned[g]), j \in 1..Len(returned[h]) :
              (/\ TimestampOf(returned[g][i]) = TimestampOf(returned[h][j])
               /\ SequenceOf(returned[g][i]) = SequenceOf(returned[h][j]))
              => returned[g][i] = returned[h][j]

\* C19 as stated: construction accepts tags outside 0..31; for
\* 0 <= machine_id < 32 and server_id >= 32 the machine field of an id
\* decodes to machine_id OR (server_id >> 5), and the tag pairs (0, 32) and
\* (1, 0) give the same id for the same timestamp and index.
TagBleedAsStated ==
    /\ \A g \in DOMAIN gen : \A k \in 1..Len(returned[g]) :
          (gen[g].machine_id \in 0..31 /\ gen[g].server_id >= 32)
          => MachineOf(returned[g][k]) =
                BitOr(gen[g].machine_id, Shr(gen[g].server_id, 5))
    /\ BleedingPairCollides

\* C19: construction accepts tags outside 0..31; for 0 <= machine_id < 32
\* and server_id >= 32 the machine field of an id decodes to the five low
\* bits of machine_id OR (server_id >> 5), which is that value itself when
\* server_id < 1024, and the tag pairs (0, 32) and (1, 0) give the same id
\* for the same timestamp and index.
TagBleed ==
    /\ \A g \in DOMAIN gen : \A k \in 1..Len(returned[g]) :
          (gen[g].machine_id \in 0..31 /\ gen[g].server_id >= 32)
          => LET bled == BitOr(gen[g].machine_id, Shr(gen[g].server_id, 5))
             IN  /\ MachineOf(returned[g][k]) = LowBits(bled, 5)
                 /\ gen[g].server_id < 1024
                       => MachineOf(returned[g][k]) = bled
    /\ BleedingPairCollides

\* instances with the tags (0, 32) and (1, 0) have returned the same id,
\* whose machine field decodes to 1
TagBleedWitness ==
    \E g, h \in DOMAIN gen :
        /\ BleedingPair(g, h)
        /\ returned[g] # << >>
        /\ returned[h] # << >>
        /\ returned[g][1] = returned[h][1]
        /\ MachineOf(returned[g][1]) = 1

\* the step of instance g in which a generate_id_by_time call returns, at
\* once or from its wait
ByTimeReturns(g) ==
    /\ call'[g].pc = "idle"
    /\ \/ generate_id_by_time(g, MaxCallsStep)
       \/ call[g].pc = "generate_id_by_time" /\ bind_time(g)

\* the timestamp of the id that the step has returned
ReturnedTimestamp(g) == TimestampOf(returned'[g][Len(returned'[g])])

\* every return of generate_id_by_time leaves the last clock read of the call
\* as the recorded timestamp and as the timestamp of the id
ByTimeReturnsRead ==
    \A g \in DOMAIN gen :
        ByTimeReturns(g)
        => /\ gen'[g].timestamp = get_timestamp(wall)
           /\ ReturnedTimestamp(g) = get_timestamp(wall)

\* a generate_id call whose index advance does not wrap keeps the recorded
\* timestamp, whatever the clock shows
GuardedReusesTimestamp ==
    \A g \in DOMAIN gen :
        (generate_id(g, MaxCallsStep) /\ generalize_index(gen[g].index) # 0)
        => /\ call'[g].pc = "idle"
           /\ gen'[g].timestamp = gen[g].timestamp
           /\ ReturnedTimestamp(g) = gen[g].timestamp

\* C20: after every call of generate_id_by_time, whatever the clock does, the
\* recorded timestamp and the timestamp of the returned id equal the last
\* value the clock returned during the call (its single read, or the final
\* read of the wait); generate_id does not have this property, because a
\* call that does not wrap reuses the recorded timestamp without reading
\* the clock.
ByTimeFollowsClock == [][ByTimeReturnsRead /\ GuardedReusesTimestamp]_vars

\* a generate_id_by_time call has wrapped the index and returned with a later
\* timestamp, the clock has moved since, and a generate_id call that will
\* not wrap can start
ByTimeFollowsClockWitness ==
    \E g \in DOMAIN gen :
        /\ used[g] = {"generate_id_by_time"}
        /\ Len(returned[g]) >= MAX_IDS_PER_MILLISECOND
        /\ gen[g].index = 0
        /\ SequenceOf(returned[g][Len(returned[g]) - 1]) =
              MAX_IDS_PER_MILLISECOND - 1
        /\ gen[g].timestamp >
              TimestampOf(returned[g][Len(returned[g]) - 1])
        /\ get_timestamp(wall) # gen[g].timestamp
        /\ generalize_index(gen[g].index) # 0
        /\ ENABLED generate_id(g, MaxCallsStep)

====
